---- MODULE Spec2Model ----
(***************************************************************************)
(* Model of the two client components of the portfolio site:               *)
(*   - ContactForm (contact page): schema validation, phone formatting,    *)
(*     submission to /api/send-email;                                      *)
(*   - Particles (components/Particles.tsx): injection and removal of the  *)
(*     particles.min.js script element.                                    *)
(* Strings are sequences of one-character strings.                         *)
(***************************************************************************)
EXTENDS Integers, Sequences, FiniteSets

VARIABLES
  values,          \* form values held by useForm: field -> string
  errors,          \* formState.errors: the set of fields with an error message
  isSubmitted,     \* formState.isSubmitted of useForm
  isSubmitting,    \* useState(false)
  status,          \* useState(null): "null" | "success" | "error"
  buttonDisabled,  \* the disabled attribute of the rendered submit button
  pending,         \* handleSubmit calls whose validation promise is unresolved
  inflight,        \* bodies of the fetch calls not yet resolved
  last,            \* the handler that ran last (history)
  scripts,         \* script elements created by loadParticlesScript
  mounted,         \* ids of the Particles effects currently mounted
  particlesJS,     \* whether window.particlesJS is defined
  calls            \* invocations of window.particlesJS (history)

formVars == <<values, errors, isSubmitted, isSubmitting, status, buttonDisabled,
              pending, inflight>>
particleVars == <<scripts, mounted, particlesJS, calls>>
vars == <<formVars, last, particleVars>>

\* ---------------------------------------------------------------- bounds
MaxInFlight == 2
MaxDigits == 12
MaxJunk == 1
MaxScripts == 3

\* --------------------------------------------------------------- strings
Digits == {"0", "1", "2", "3", "4", "5", "6", "7", "8", "9"}
Letters == {"a", "b", "c", "e", "h", "l", "o", "y"}

IsDigit(c) == c \in Digits

Min(a, b) == IF a < b THEN a ELSE b

\* String.prototype.slice(a, b) for 0 <= a, 0 <= b
slice(s, a, b) == SubSeq(s, a + 1, Min(b, Len(s)))

\* input.replace(/\D/g, "")
StripNonDigits(s) == SelectSeq(s, IsDigit)

RECURSIVE trimStart(_)
trimStart(s) ==
  IF s # <<>> /\ Head(s) = " " THEN trimStart(Tail(s)) ELSE s

RECURSIVE trimEnd(_)
trimEnd(s) ==
  IF s # <<>> /\ s[Len(s)] = " " THEN trimEnd(SubSeq(s, 1, Len(s) - 1)) ELSE s

\* z.string().trim()
trim(s) == trimEnd(trimStart(s))

\* ------------------------------------------------------ formatPhoneNumber
\* formatPhoneNumber without its ten-digit branch
formatPhoneNumberNoTen(input) ==
  LET digits == StripNonDigits(input) IN
  IF Len(digits) >= 10
    THEN <<"(">> \o slice(digits, 0, 2) \o <<")", " ">> \o slice(digits, 2, 7)
         \o <<"-">> \o slice(digits, 7, 11)
  ELSE IF Len(digits) >= 2
    THEN <<"(">> \o slice(digits, 0, 2) \o <<")", " ">> \o slice(digits, 2, Len(digits))
  ELSE digits

formatPhoneNumber(input) ==
  LET digits == StripNonDigits(input) IN
  IF Len(digits) >= 11
    THEN <<"(">> \o slice(digits, 0, 2) \o <<")", " ">> \o slice(digits, 2, 7)
         \o <<"-">> \o slice(digits, 7, 11)
  ELSE IF Len(digits) >= 10
    THEN <<"(">> \o slice(digits, 0, 2) \o <<")", " ">> \o slice(digits, 2, 6)
         \o <<"-">> \o slice(digits, 6, 10)
  ELSE IF Len(digits) >= 2
    THEN <<"(">> \o slice(digits, 0, 2) \o <<")", " ">> \o slice(digits, 2, Len(digits))
  ELSE digits

\* ---------------------------------------------------------- contactSchema
NameMin == 2
MessageMin == 5

\* /^\(\d{2}\) \d{4,5}-\d{4}$/
PhoneRegex(s) ==
  /\ Len(s) \in {14, 15}
  /\ LET n == Len(s) - 14 IN
     /\ s[1] = "(" /\ IsDigit(s[2]) /\ IsDigit(s[3]) /\ s[4] = ")" /\ s[5] = " "
     /\ \A i \in 6..(9 + n) : IsDigit(s[i])
     /\ s[10 + n] = "-"
     /\ \A i \in (11 + n)..(14 + n) : IsDigit(s[i])

AlphaNum == Letters \cup Digits

\* local part of an address: [A-Z0-9_'+\-\.]*[A-Z0-9_+-], not starting with "."
LocalOk(l) ==
  /\ l # <<>>
  /\ \A i \in 1..Len(l) : l[i] \in AlphaNum \cup {"_", "+", "-", ".", "'"}
  /\ l[1] # "."
  /\ l[Len(l)] \in AlphaNum \cup {"_", "+", "-"}

\* domain: ([A-Z0-9][A-Z0-9\-]*\.)+[A-Z]{2,}
DomainOk(d) ==
  LET dots == {i \in 1..Len(d) : d[i] = "."} IN
  /\ dots # {}
  /\ LET lastDot == CHOOSE i \in dots : \A j \in dots : j <= i IN
     /\ Len(d) - lastDot >= 2
     /\ \A i \in (lastDot + 1)..Len(d) : d[i] \in Letters
     /\ d[1] \in AlphaNum
     /\ \A i \in 1..lastDot : d[i] \in AlphaNum \cup {"-", "."}
     /\ \A i \in 1..(lastDot - 1) : d[i] = "." => d[i + 1] \in AlphaNum

\* z.string().email(): one "@", no "..", a valid local part and domain
isEmail(s) ==
  LET ats == {i \in 1..Len(s) : s[i] = "@"} IN
  /\ Cardinality(ats) = 1
  /\ \A i \in 1..(Len(s) - 1) : ~(s[i] = "." /\ s[i + 1] = ".")
  /\ LET at == CHOOSE i \in ats : TRUE IN
     /\ LocalOk(SubSeq(s, 1, at - 1))
     /\ DomainOk(SubSeq(s, at + 1, Len(s)))

Fields == {"name", "email", "number", "message"}

\* whether value v passes the rule contactSchema gives field f
FieldOk(f, v) ==
  CASE f = "name" -> Len(trim(v)) >= NameMin
    [] f = "email" -> isEmail(trim(v))
    [] f = "number" -> PhoneRegex(v)
    [] f = "message" -> Len(trim(v)) >= MessageMin

\* the fields for which contactSchema reports an issue
schemaErrors(vals) == {f \in Fields : ~FieldOk(f, vals[f])}

\* the output of contactSchema on valid data (name, email, message trimmed)
schemaParse(vals) ==
  [name |-> trim(vals.name), email |-> trim(vals.email),
   number |-> vals.number, message |-> trim(vals.message)]

\* ------------------------------------------------------------ ContactForm
\* The schema validation started by a submit event completes in microtasks,
\* before the event loop runs another task: while a validation is pending
\* (pending > 0) only further submit events of the same task and the validation
\* completions themselves can run; input events, fetch resolutions and the
\* render that follows a state update are tasks of their own.
EmptyValues == [f \in Fields |-> <<>>]

\* what the user may type into each field
Inputs(f) ==
  CASE f = "name" -> {<<" ", "a", " ">>, <<"a", "b">>, <<" ", "b", "o", "b">>}
    [] f = "email" -> {<<"a", "@", "b">>, <<" ", "a", "@", "b", ".", "c", "c", " ">>}
    [] f = "number" -> {<<"1", "1", "9">>,
                        <<"1", "1", "9", "8", "7", "6", "5", "4", "3", "2">>}
    [] f = "message" -> {<<" ", "h", "e", "y", " ">>, <<"h", "e", "l", "l", "o">>}

RemoveAt(s, i) == SubSeq(s, 1, i - 1) \o SubSeq(s, i + 1, Len(s))

\* field-level validation run by useForm for field f after its value became v
validateField(f, v) == IF FieldOk(f, v) THEN errors \ {f} ELSE errors \cup {f}

\* reset() keeping the values (only the errors are dropped)
resetKeepValues == /\ values' = values
                   /\ errors' = {}

\* reset(): every field back to its default (empty) value, errors dropped
reset == /\ values' = EmptyValues
         /\ errors' = {}

\* register(f).onChange: the value is stored; once the form has been submitted
\* (reValidateMode "onChange") the field is validated again
Change(f, v) ==
  /\ pending = 0
  /\ values' = [values EXCEPT ![f] = v]
  /\ errors' = IF isSubmitted THEN validateField(f, v) ELSE errors
  /\ last' = <<"change", f>>
  /\ UNCHANGED <<isSubmitted, isSubmitting, status, buttonDisabled, pending, inflight>>
  /\ UNCHANGED particleVars

\* the onBlur prop given after {...register(name)}: undefined for name and
\* email, the phone formatter for number
BlurInput(f) ==
  /\ f \in {"name", "email", "number"}
  /\ pending = 0
  /\ values' = IF f = "number"
                 THEN [values EXCEPT !.number = formatPhoneNumber(values.number)]
                 ELSE values
  /\ last' = <<"blur", f>>
  /\ UNCHANGED <<errors, isSubmitted, isSubmitting, status, buttonDisabled, pending,
                 inflight>>
  /\ UNCHANGED particleVars

\* the textarea keeps register("message").onBlur: mode "onBlur" validates the
\* field until the form has been submitted
BlurMessage ==
  /\ pending = 0
  /\ errors' = IF isSubmitted THEN errors ELSE validateField("message", values.message)
  /\ last' = <<"blur", "message">>
  /\ UNCHANGED <<values, isSubmitted, isSubmitting, status, buttonDisabled, pending,
                 inflight>>
  /\ UNCHANGED particleVars

\* a submit event on the form: the button is clickable (and implicit submission
\* possible) only while the rendered button is not disabled; handleSubmit starts
\* the asynchronous schema validation
Submit ==
  /\ ~buttonDisabled
  /\ pending + Len(inflight) < MaxInFlight
  /\ pending' = pending + 1
  /\ last' = <<"submit">>
  /\ UNCHANGED <<values, errors, isSubmitted, isSubmitting, status, buttonDisabled,
                 inflight>>
  /\ UNCHANGED particleVars

\* onSubmit without its setStatus(null)
onSubmitKeepsStatus(data) ==
  /\ isSubmitting' = TRUE
  /\ status' = status
  /\ inflight' = Append(inflight, data)

\* onSubmit(data) up to the await of fetch
onSubmit(data) ==
  /\ isSubmitting' = TRUE
  /\ status' = "null"
  /\ inflight' = Append(inflight, data)

\* handleSubmit without a resolver: onSubmit runs whatever the values are
ValidatedNoResolver ==
  /\ pending > 0
  /\ pending' = pending - 1
  /\ onSubmit(schemaParse(values))
  /\ errors' = {}
  /\ last' = <<"onSubmit">>
  /\ UNCHANGED <<isSubmitted, values, buttonDisabled>>
  /\ UNCHANGED particleVars

\* the validation of a handleSubmit call completes: onSubmit runs on valid
\* data, otherwise the errors are stored
Validated ==
  /\ pending > 0
  /\ pending' = pending - 1
  /\ IF schemaErrors(values) = {}
       THEN /\ onSubmit(schemaParse(values))
            /\ errors' = {}
            /\ last' = <<"onSubmit">>
            /\ UNCHANGED isSubmitted
       ELSE /\ errors' = schemaErrors(values)
            /\ isSubmitted' = TRUE
            /\ last' = <<"invalid">>
            /\ UNCHANGED <<isSubmitting, status, inflight>>
  /\ UNCHANGED <<values, buttonDisabled>>
  /\ UNCHANGED particleVars

\* fetch resolves with response.ok; when onSubmit has returned, handleSubmit
\* marks the form as submitted
ResolveOk(i) ==
  /\ i \in 1..Len(inflight)
  /\ pending = 0
  /\ inflight' = RemoveAt(inflight, i)
  /\ status' = "success"
  /\ reset
  /\ isSubmitting' = FALSE
  /\ isSubmitted' = TRUE
  /\ last' = <<"resolve", "ok">>
  /\ UNCHANGED <<buttonDisabled, pending>>
  /\ UNCHANGED particleVars

\* a failure path that also resets the form
ResolveFailResets(i, how) ==
  /\ i \in 1..Len(inflight)
  /\ pending = 0
  /\ inflight' = RemoveAt(inflight, i)
  /\ status' = "error"
  /\ reset
  /\ isSubmitting' = FALSE
  /\ isSubmitted' = TRUE
  /\ last' = <<"resolve", how>>
  /\ UNCHANGED <<buttonDisabled, pending>>
  /\ UNCHANGED particleVars

\* fetch resolves with a non-ok response, or the request throws
ResolveFail(i, how) ==
  /\ i \in 1..Len(inflight)
  /\ pending = 0
  /\ inflight' = RemoveAt(inflight, i)
  /\ status' = "error"
  /\ isSubmitting' = FALSE
  /\ isSubmitted' = TRUE
  /\ last' = <<"resolve", how>>
  /\ UNCHANGED <<values, errors, buttonDisabled, pending>>
  /\ UNCHANGED particleVars

\* React renders the state: <button disabled={isSubmitting}>
Render ==
  /\ pending = 0
  /\ buttonDisabled # isSubmitting
  /\ buttonDisabled' = isSubmitting
  /\ UNCHANGED <<values, errors, isSubmitted, isSubmitting, status, pending, inflight,
                 last>>
  /\ UNCHANGED particleVars

InitForm ==
  /\ values = EmptyValues
  /\ errors = {}
  /\ isSubmitted = FALSE
  /\ isSubmitting = FALSE
  /\ status = "null"
  /\ buttonDisabled = FALSE
  /\ pending = 0
  /\ inflight = <<>>
  /\ last = <<"init">>

InitParticles ==
  /\ scripts = <<>>
  /\ mounted = {}
  /\ particlesJS = FALSE
  /\ calls = <<>>

Init == InitForm /\ InitParticles

Next ==
  \/ \E f \in Fields : \E v \in Inputs(f) : Change(f, v)
  \/ \E f \in Fields : BlurInput(f)
  \/ BlurMessage
  \/ Submit
  \/ Validated
  \/ \E i \in 1..MaxInFlight : ResolveOk(i)
  \/ \E i \in 1..MaxInFlight : \E how \in {"http", "throw"} : ResolveFail(i, how)
  \/ Render

Spec == Init /\ [][Next]_vars

\* -------------------------------------------------------------- Particles
\* loadParticlesScript(): a script element is created and appended to the body
loadParticlesScript ==
  scripts' = Append(scripts, [inDom |-> TRUE, state |-> "loading"])

\* initializeParticles(), the onload handler of script i
initializeParticles(i) ==
  calls' = IF particlesJS'
             THEN Append(calls, [script |-> i, live |-> i \in mounted])
             ELSE calls

\* a cleanup using querySelector: only the first matching element is removed
cleanupFirst ==
  LET inDoc == {i \in 1..Len(scripts) : scripts[i].inDom} IN
  scripts' = IF inDoc = {} THEN scripts
             ELSE LET first == CHOOSE i \in inDoc : \A j \in inDoc : i <= j IN
                  [scripts EXCEPT ![first].inDom = FALSE]

\* the effect cleanup: every script element matching script[src*="particles.min.js"]
\* is removed from its parent
cleanup == scripts' = [i \in 1..Len(scripts) |-> [scripts[i] EXCEPT !.inDom = FALSE]]

\* the component mounts: the effect runs; effect k owns script k
Mount ==
  /\ Len(scripts) < MaxScripts
  /\ loadParticlesScript
  /\ mounted' = mounted \cup {Len(scripts) + 1}
  /\ last' = <<"mount">>
  /\ UNCHANGED <<particlesJS, calls>>
  /\ UNCHANGED formVars

\* a mounted component unmounts: React runs the cleanup of its effect
Unmount(m) ==
  /\ m \in mounted
  /\ cleanup
  /\ mounted' = mounted \ {m}
  /\ last' = <<"unmount">>
  /\ UNCHANGED <<particlesJS, calls>>
  /\ UNCHANGED formVars

\* the browser finishes fetching script i and runs it (the fetch started when the
\* element was appended and is not cancelled by removing the element); the
\* script may or may not register window.particlesJS; then onload fires
ScriptLoad(i, defines) ==
  /\ i \in 1..Len(scripts)
  /\ scripts[i].state = "loading"
  /\ scripts' = [scripts EXCEPT ![i].state = "loaded"]
  /\ particlesJS' = (particlesJS \/ defines)
  /\ initializeParticles(i)
  /\ last' = <<"onload">>
  /\ UNCHANGED mounted
  /\ UNCHANGED formVars

\* the fetch of script i fails: onload never fires
ScriptError(i) ==
  /\ i \in 1..Len(scripts)
  /\ scripts[i].state = "loading"
  /\ scripts' = [scripts EXCEPT ![i].state = "failed"]
  /\ last' = <<"onerror">>
  /\ UNCHANGED <<mounted, particlesJS, calls>>
  /\ UNCHANGED formVars

NextParticles ==
  \/ Mount
  \/ \E m \in 1..MaxScripts : Unmount(m)
  \/ \E i \in 1..MaxScripts : \E defines \in BOOLEAN : ScriptLoad(i, defines)
  \/ \E i \in 1..MaxScripts : ScriptError(i)

SpecParticles == Init /\ [][NextParticles]_vars

\* ------------------------------------------- the phone field, key by key
\* one more character typed into the WhatsApp input
KeyPress(c) ==
  /\ IF IsDigit(c)
       THEN Len(StripNonDigits(values.number)) < MaxDigits
       ELSE Len(values.number) - Len(StripNonDigits(values.number)) < MaxJunk
  /\ Change("number", Append(values.number, c))

BlurNumber == BlurInput("number")

NextPhone ==
  \/ \E c \in {"1", "2", "-"} : KeyPress(c)
  \/ BlurNumber

SpecPhone == Init /\ [][NextPhone]_vars

\* ================================================================ claims

\* C1: at most one POST to /api/send-email is in flight at any time.
C1_OneInFlight == Len(inflight) <= 1

\* the four rules of the schema, on a data object
C2_Rules(d) ==
  /\ Len(trim(d.name)) >= 2
  /\ isEmail(trim(d.email))
  /\ PhoneRegex(d.number)
  /\ Len(trim(d.message)) >= 5

\* C2: a submit attempt on form content that breaks a rule issues no request
\* and sets the error of each offending field; a request is issued only with
\* data satisfying the four rules.
C2_InvalidNeverSent ==
  [][ /\ (pending' < pending /\ ~C2_Rules(values))
         => /\ inflight' = inflight
            /\ isSubmitting' = isSubmitting
            /\ \A f \in Fields : ~FieldOk(f, values[f]) => f \in errors'
      /\ Len(inflight') > Len(inflight)
         => /\ C2_Rules(values)
            /\ C2_Rules(inflight'[Len(inflight')]) ]_vars

\* an attempt rejected only for the phone number (ten digits, not formatted)
C2_Witness ==
  /\ last = <<"invalid">>
  /\ errors = {"number"}
  /\ inflight = <<>>

\* C3: when a request resolves ok, status is "success" and the four fields are
\* empty.
C3_SuccessClears ==
  last = <<"resolve", "ok">>
    => /\ status = "success"
       /\ \A f \in Fields : values[f] = <<>>

C3_Witness ==
  /\ last = <<"resolve", "ok">>
  /\ status = "success"
  /\ values = EmptyValues

\* C4: when a request resolves not ok or throws, status becomes "error", every
\* field keeps its value, and isSubmitting is false again.
C4_FailureKeeps ==
  [][ (Len(inflight') < Len(inflight) /\ last' \in {<<"resolve", "http">>, <<"resolve", "throw">>})
        => /\ status' = "error"
           /\ values' = values
           /\ isSubmitting' = FALSE ]_vars

\* after a thrown request: the values are still there and, once rendered, the
\* submit button is enabled again
C4_Witness ==
  /\ last = <<"resolve", "throw">>
  /\ status = "error"
  /\ schemaErrors(values) = {}
  /\ ~isSubmitting
  /\ ~buttonDisabled
  /\ ENABLED Submit

\* C5 as stated: once the validation of a submit attempt has run, whether it
\* passed or not, no earlier status is set.
C5_Original == last \in {<<"invalid">>, <<"onSubmit">>} => status = "null"

\* C5 amended: status is reset to null when an attempt passes validation and
\* onSubmit starts; an attempt that fails validation leaves status as it was;
\* a null status changes only when a request resolves.
C5_Amended ==
  [][ /\ (pending' < pending /\ C2_Rules(values)) => status' = "null"
      /\ (pending' < pending /\ ~C2_Rules(values)) => status' = status
      /\ (status = "null" /\ status' # "null") => Len(inflight') < Len(inflight) ]_vars

\* a rejected attempt with the "error" of an earlier submission still shown
C5_Witness ==
  /\ last = <<"invalid">>
  /\ status = "error"

\* the result C6 states for an input, digit by digit
C6_Expected(input) ==
  LET d == StripNonDigits(input)
      n == Len(d) IN
  IF n >= 11
    THEN <<"(", d[1], d[2], ")", " ", d[3], d[4], d[5], d[6], d[7], "-",
           d[8], d[9], d[10], d[11]>>
  ELSE IF n = 10
    THEN <<"(", d[1], d[2], ")", " ", d[3], d[4], d[5], d[6], "-",
           d[7], d[8], d[9], d[10]>>
  ELSE IF n >= 2
    THEN <<"(", d[1], d[2], ")", " ">> \o SubSeq(d, 3, n)
  ELSE d

\* C6: formatPhoneNumber gives the stated result for every input; the result
\* matches the phone pattern exactly when the input has at least 10 digits;
\* formatting a formatted value changes nothing.
C6_Format ==
  [][ last' = <<"blur", "number">>
        => /\ values'.number = C6_Expected(values.number)
           /\ PhoneRegex(values'.number) <=> Len(StripNonDigits(values.number)) >= 10
           /\ formatPhoneNumber(values'.number) = values'.number ]_vars

\* a blur that produced the eleven-digit form
C6_Witness ==
  /\ last = <<"blur", "number">>
  /\ Len(values.number) = 15
  /\ PhoneRegex(values.number)

\* C7: after an unmount (and whenever no Particles component is mounted) no
\* particles.min.js script element is in the document.
C7_NoScriptAfterUnmount ==
  (last = <<"unmount">> \/ mounted = {})
    => \A i \in 1..Len(scripts) : ~scripts[i].inDom

\* an unmount after several mounts, with a script still loading
C7_Witness ==
  /\ last = <<"unmount">>
  /\ Len(scripts) >= 2
  /\ \E i \in 1..Len(scripts) : scripts[i].state = "loading"
  /\ \A i \in 1..Len(scripts) : ~scripts[i].inDom

\* C8: window.particlesJS is invoked at most once per mount, and never by the
\* script of a mount that was unmounted before the script loaded.
C8_NoStaleInit ==
  /\ \A k \in 1..Len(calls) : calls[k].live
  /\ \A j, k \in 1..Len(calls) : calls[j].script = calls[k].script => j = k

\* C9: a blur on a field whose value breaks the field's rule sets that field's
\* error.
C9_BlurValidates ==
  \A f \in Fields : (last = <<"blur", f>> /\ ~FieldOk(f, values[f])) => f \in errors

\* C10: while a request is in flight, isSubmitting = true and status = null.
C10_Submitting == Len(inflight) > 0 => (isSubmitting /\ status = "null")

====
